---- MODULE Spec2Model ----
(***************************************************************************)
(* Model of the custom contract tools of                                   *)
(* agentkit/python/examples/langchain-cdp-chatbot/chatbot.py: the eight    *)
(* Tool callables, their argument parsers, invoke_contract_function and    *)
(* read_contract_function, and the conversions (int, float, str, Decimal)  *)
(* they apply to the raw argument string.                                  *)
(*                                                                         *)
(* Numbers that do not fit TLC's integers (wei amounts, mantissas) are     *)
(* digit sequences, most significant digit first, without leading zeros    *)
(* (zero is <<0>>).                                                        *)
(***************************************************************************)
EXTENDS Integers, Sequences, FiniteSets, TLC

\* ------------------------------------------------------------------------
\* Arbitrary-precision naturals as digit sequences
\* ------------------------------------------------------------------------

Zeros(n) == [i \in 1..n |-> 0]

Min(S) == CHOOSE x \in S : \A y \in S : x <= y
Max(S) == CHOOSE x \in S : \A y \in S : x >= y

IsZero(d) == \A i \in 1..Len(d) : d[i] = 0

\* Without leading zeros; zero is <<0>>.
StripZeros(d) ==
    IF IsZero(d) THEN <<0>>
    ELSE SubSeq(d, Min({i \in 1..Len(d) : d[i] # 0}), Len(d))

\* The j-th limb (five digits) of p, counted from the most significant.
Limb(p, j) ==
    10000 * p[5 * j - 4] + 1000 * p[5 * j - 3] + 100 * p[5 * j - 2]
    + 10 * p[5 * j - 1] + p[5 * j]

\* The digits of p * n, for p a whole number of limbs and n a power of 2 or
\* of 5 up to 2^5 and 5^5.  Such an n divides 10^5, so the carry out of a
\* limb is (n * limb) \div 10^5 whatever the carry into it, and each limb of
\* the product depends on two limbs of p only.
MulLimbs(p, n) ==
    LET nl == Len(p) \div 5
        out(j) == (IF j >= 1 THEN (n * Limb(p, j)) % 100000 ELSE 0)
                  + (IF j < nl THEN (n * Limb(p, j + 1)) \div 100000 ELSE 0)
    IN  [i \in 1..(5 * (nl + 1)) |->
            (out((i - 1) \div 5) \div (10 ^ (4 - ((i - 1) % 5)))) % 10]

\* d * n, for n as in MulLimbs
MulInt(d, n) ==
    IF IsZero(d) THEN <<0>>
    ELSE StripZeros(MulLimbs(Zeros((5 - (Len(d) % 5)) % 5) \o d, n))

\* d + 1
AddOne(d) ==
    LET notNine == {i \in 1..Len(d) : d[i] # 9}
    IN  IF notNine = {} THEN <<1>> \o Zeros(Len(d))
        ELSE LET j == Max(notNine)
             IN  [i \in 1..Len(d) |->
                     IF i < j THEN d[i] ELSE IF i = j THEN d[i] + 1 ELSE 0]

\* -1, 0, 1 as a < b, a = b, a > b (both without leading zeros)
Cmp(a, b) ==
    IF Len(a) # Len(b) THEN (IF Len(a) < Len(b) THEN -1 ELSE 1)
    ELSE IF a = b THEN 0
    ELSE LET i == Min({j \in 1..Len(a) : a[j] # b[j]})
         IN  IF a[i] < b[i] THEN -1 ELSE 1

IsOdd(d) == d[Len(d)] % 2 = 1

\* d * b^n, for b = 2 or b = 5, taken five factors at a time
RECURSIVE MulPow(_, _, _)
MulPow(d, b, n) ==
    IF IsZero(d) \/ n = 0 THEN d
    ELSE LET s == IF n >= 5 THEN 5 ELSE n
         IN  MulPow(MulInt(d, b ^ s), b, n - s)

Pow(b, n) == MulPow(<<1>>, b, n)

\* ------------------------------------------------------------------------
\* Decimal values: (-1)^sign * coef * 10^exp, or a special value
\* ------------------------------------------------------------------------

Dec(sign, coef, exp) ==
    [special |-> "finite", sign |-> sign, coef |-> coef, exp |-> exp]
DecNaN == [special |-> "NaN", sign |-> 0, coef |-> <<0>>, exp |-> 0]
DecInf == [special |-> "Infinity", sign |-> 0, coef |-> <<0>>, exp |-> 0]

\* Round coef * 10^exp to at most n significant digits, ties to even
\* (ROUND_HALF_EVEN, the rounding of the default decimal context and of
\* correctly rounded float conversions).
RoundSig(coef, exp, n) ==
    IF Len(coef) <= n THEN [coef |-> coef, exp |-> exp]
    ELSE LET drop == Len(coef) - n
             head == SubSeq(coef, 1, n)
             first == coef[n + 1]
             rest == SubSeq(coef, n + 2, Len(coef))
             up == \/ first > 5
                   \/ first = 5 /\ (~IsZero(rest) \/ IsOdd(head))
         IN  [coef |-> IF up THEN AddOne(head) ELSE head, exp |-> exp + drop]

\* ------------------------------------------------------------------------
\* Python strings: a string is a sequence of items, each a token (a maximal
\* run of non-blank characters, kept whole) or one blank SP
\* ------------------------------------------------------------------------

Item(kind, text, neg, digits, frac) ==
    [kind |-> kind, text |-> text, neg |-> neg, digits |-> digits, frac |-> frac]

\* A numeric literal: optional minus sign, the digits as written, and how
\* many of them follow the decimal point (frac = 0: no decimal point).
Num(neg, digits, frac) == Item("num", "", neg, digits, frac)
\* Any other run of characters, e.g. "abc", "nan", "inf"
Word(text) == Item("word", text, FALSE, <<>>, 0)
\* A well-formed 20-byte hex address
Addr(text) == Item("addr", text, FALSE, <<>>, 0)
SP == Item("sp", " ", FALSE, <<>>, 0)

\* str.strip()
RECURSIVE LStrip(_)
LStrip(s) == IF Len(s) > 0 /\ s[1] = SP THEN LStrip(Tail(s)) ELSE s

RECURSIVE RStrip(_)
RStrip(s) ==
    IF Len(s) > 0 /\ s[Len(s)] = SP THEN RStrip(SubSeq(s, 1, Len(s) - 1)) ELSE s

Strip(s) == RStrip(LStrip(s))

\* str.split(): the maximal runs of non-blank items, each a string
RECURSIVE SplitFrom(_, _, _, _)
SplitFrom(s, i, cur, acc) ==
    IF i > Len(s) THEN (IF cur = <<>> THEN acc ELSE Append(acc, cur))
    ELSE IF s[i] = SP
         THEN SplitFrom(s, i + 1, <<>>, IF cur = <<>> THEN acc ELSE Append(acc, cur))
         ELSE SplitFrom(s, i + 1, Append(cur, s[i]), acc)

Split(s) == SplitFrom(s, 1, <<>>, <<>>)

\* ------------------------------------------------------------------------
\* int(str)
\* ------------------------------------------------------------------------

IntVal(neg, digits) ==
    LET d == StripZeros(digits)
    IN  [neg |-> neg /\ ~IsZero(d), digits |-> d]

\* int() accepts, around blanks, one literal without a decimal point;
\* anything else is a ValueError.
IntParses(s) ==
    LET t == Strip(s)
    IN  Len(t) = 1 /\ t[1].kind = "num" /\ t[1].frac = 0

PyInt(s) == LET t == Strip(s) IN IntVal(t[1].neg, t[1].digits)

\* ------------------------------------------------------------------------
\* Decimal(str), Decimal arithmetic under the default context
\* ------------------------------------------------------------------------

\* The default context's precision, in significant digits.
Prec == 28

\* The power of ten between ETH and wei: 10**18.
WeiDecimals == 18

\* Decimal() accepts, around blanks, one numeric literal, or NaN/Infinity;
\* anything else is decimal.InvalidOperation.
DecimalParses(s) ==
    LET t == Strip(s)
    IN  Len(t) = 1 /\ (t[1].kind = "num" \/ t[1] \in {Word("nan"), Word("inf")})

\* Construction is exact: no rounding to the context's precision.
PyDecimal(s) ==
    LET t == Strip(s)[1]
    IN  IF t = Word("nan") THEN DecNaN
        ELSE IF t = Word("inf") THEN DecInf
        ELSE Dec(IF t.neg THEN 1 ELSE 0, StripZeros(t.digits), -t.frac)

\* val * Decimal(10**18): the exact product, rounded to Prec digits.
MulWei(val) ==
    IF val.special # "finite" THEN val
    ELSE LET exact == IF IsZero(val.coef) THEN val.coef
                      ELSE val.coef \o Zeros(WeiDecimals)
             r == RoundSig(exact, val.exp, Prec)
         IN  Dec(val.sign, r.coef, r.exp)

\* A faulty variant of the comparison: value >= Decimal(0)
GeZero(val) ==
    \/ val.special = "Infinity" /\ val.sign = 0
    \/ val.special = "finite" /\ (val.sign = 0 \/ IsZero(val.coef))

\* val > Decimal(0); a NaN operand raises InvalidOperation instead.
GtZeroRaises(val) == val.special = "NaN"
GtZero(val) ==
    \/ val.special = "Infinity" /\ val.sign = 0
    \/ val.special = "finite" /\ val.sign = 0 /\ ~IsZero(val.coef)

\* int(Decimal): truncation toward zero; NaN raises ValueError and
\* Infinity OverflowError.
DecToIntRaises(val) == val.special # "finite"
DecToInt(val) ==
    IF val.exp >= 0 THEN IntVal(val.sign = 1, val.coef \o Zeros(val.exp))
    ELSE IF Len(val.coef) <= -val.exp THEN IntVal(FALSE, <<0>>)
    ELSE IntVal(val.sign = 1, SubSeq(val.coef, 1, Len(val.coef) + val.exp))

\* ------------------------------------------------------------------------
\* float(str) and str(float): IEEE 754 binary64, m * 2^e with
\* 2^(MantBits-1) <= m < 2^MantBits, correctly rounded both ways
\* ------------------------------------------------------------------------

MantBits == 53

MantMin == Pow(2, MantBits - 1)
MantMax == Pow(2, MantBits)

Flt(special, sign, m, e) == [special |-> special, sign |-> sign, m |-> m, e |-> e]

IntPart(c, k) == IF Len(c) <= k THEN <<0>> ELSE SubSeq(c, 1, Len(c) - k)

\* How many doublings to apply next to a value whose integer part is ip
\* and is below lo = 2^(MantBits-1): 25 or 5 when ip is short enough that
\* the product stays below lo (2^25 < 10^8, 2^5 < 10^2), else one.
ShiftStep(ip, lo) ==
    IF Len(ip) + 8 <= Len(lo) THEN 25
    ELSE IF Len(ip) + 2 <= Len(lo) THEN 5
    ELSE 1

\* c / 10^k rounded to an integer mantissa, ties to even; a mantissa that
\* rounds up to hi = 2^MantBits is lo = 2^(MantBits-1) one exponent higher.
RoundMant(r, e, lo, hi) ==
    IF r.coef = hi THEN [m |-> lo, e |-> e + 1] ELSE [m |-> r.coef, e |-> e]

\* The double nearest to c / 10^k (c > 0), ties to even.  e is the binary
\* exponent accumulated so far: c / 10^k is the value scaled by 2^-e.
RECURSIVE Normalize(_, _, _, _, _)
Normalize(c, k, e, lo, hi) ==
    LET ip == IntPart(c, k)
        up == Cmp(ip, hi) >= 0
        st == ShiftStep(ip, lo)
    IN  IF ~up /\ Cmp(ip, lo) >= 0
        THEN RoundMant(RoundSig(c, 0, Len(c) - k), e, lo, hi)
        ELSE Normalize(MulPow(c, IF up THEN 5 ELSE 2, IF up THEN 1 ELSE st),
                       IF up THEN k + 1 ELSE k,
                       IF up THEN e + 1 ELSE e - st, lo, hi)

NearestDouble(c, k, e) == Normalize(c, k, e, MantMin, MantMax)

\* The double nearest to coef * 10^exp.
DoubleOf(coef, exp) ==
    NearestDouble(IF exp >= 0 THEN coef \o Zeros(exp) ELSE coef,
                  IF exp >= 0 THEN 0 ELSE -exp, 0)

\* float() accepts what Decimal() accepts here; anything else is a
\* ValueError.
FloatParses(s) ==
    LET t == Strip(s)
    IN  Len(t) = 1 /\ (t[1].kind = "num" \/ t[1] \in {Word("nan"), Word("inf")})

FloatOfToken(t, d) ==
    IF t = Word("nan") THEN Flt("NaN", 0, <<0>>, 0)
    ELSE IF t = Word("inf") THEN Flt("Infinity", 0, <<0>>, 0)
    ELSE Flt("finite", IF t.neg THEN 1 ELSE 0, d.m, d.e)

PyFloat(s) ==
    LET t == Strip(s)[1]
    IN  FloatOfToken(t, IF t.kind # "num" \/ IsZero(t.digits)
                        THEN [m |-> <<0>>, e |-> 0]
                        ELSE NearestDouble(StripZeros(t.digits), t.frac, 0))

\* The exact decimal expansion of m * 2^e.
ExactDecimal(m, e) ==
    [coef |-> MulPow(m, IF e >= 0 THEN 2 ELSE 5, IF e >= 0 THEN e ELSE -e),
     exp |-> IF e >= 0 THEN 0 ELSE e]

\* The most digits repr ever needs for a double.
ReprMaxDigits == 17

\* The shortest rounding of x that float() reads back as the double d, the
\* nearest to x among those.
ShortestOf(x, d) ==
    LET reads(r) == DoubleOf(r.coef, r.exp) = d
    IN  RoundSig(x.coef, x.exp,
                 Min({n \in 1..ReprMaxDigits :
                         n = ReprMaxDigits \/ reads(RoundSig(x.coef, x.exp, n))}))

\* repr's digits of the double m * 2^e
Shortest(m, e) == ShortestOf(ExactDecimal(m, e), [m |-> m, e |-> e])

DecOf(sign, r) == Dec(sign, r.coef, r.exp)

\* Decimal(str(f)): str(float) prints the shortest round-trip digits
\* ("nan", "inf" for the specials), which Decimal() then reads exactly.
DecimalOfStrOfFloat(f) ==
    IF f.special = "NaN" THEN DecNaN
    ELSE IF f.special = "Infinity" THEN DecInf
    ELSE IF IsZero(f.m) THEN Dec(f.sign, <<0>>, -1)
    ELSE DecOf(f.sign, Shortest(f.m, f.e))

\* ------------------------------------------------------------------------
\* Contract details
\* ------------------------------------------------------------------------

SMART_CONTRACT_ADDRESS == "0xa633656593bB24252A55A468146fe9536eA899cB"

\* name |-> input types and state mutability, as in the ABI list
\* (the constructor, which has no name, is left out).
SMART_CONTRACT_ABI ==
    [deposit          |-> [inputs |-> <<>>, stateMutability |-> "payable"],
     depositERC20     |-> [inputs |-> <<"address", "uint256">>,
                           stateMutability |-> "nonpayable"],
     destroyContract  |-> [inputs |-> <<>>, stateMutability |-> "nonpayable"],
     getBalance       |-> [inputs |-> <<>>, stateMutability |-> "view"],
     getERC20Balance  |-> [inputs |-> <<"address">>, stateMutability |-> "view"],
     getCounter       |-> [inputs |-> <<>>, stateMutability |-> "view"],
     incrementCounter |-> [inputs |-> <<>>, stateMutability |-> "nonpayable"],
     withdraw         |-> [inputs |-> <<"address", "uint256">>,
                           stateMutability |-> "nonpayable"],
     withdrawERC20    |-> [inputs |-> <<"address", "address", "uint256">>,
                           stateMutability |-> "nonpayable"]]

\* Python values passed as contract arguments
StrArg(s) == [t |-> "str", s |-> s]
IntArg(v) == [t |-> "int", neg |-> v.neg, digits |-> v.digits]

UintBits == 256

\* Whether the ABI encoder accepts the value for the Solidity type.
Encodable(type, arg) ==
    IF type = "address"
    THEN arg.t = "str" /\ Len(arg.s) = 1 /\ arg.s[1].kind = "addr"
    ELSE arg.t = "int" /\ ~arg.neg /\ Cmp(arg.digits, Pow(2, UintBits)) < 0

\* contract.encode_abi(function_name, args=args) returns (TRUE) or raises:
\* the function must exist and the arguments match its inputs in count and
\* type.
EncodeAbiOk(function_name, arguments) ==
    /\ function_name \in DOMAIN SMART_CONTRACT_ABI
    /\ LET inputs == SMART_CONTRACT_ABI[function_name].inputs
       IN  /\ Len(arguments) = Len(inputs)
           /\ \A i \in 1..Len(inputs) : Encodable(inputs[i], arguments[i])

\* The call data: the encoding is one-to-one, so it is kept as the pair.
CallData(function_name, arguments) == [fn |-> function_name, args |-> arguments]

\* ------------------------------------------------------------------------
\* Inputs
\* ------------------------------------------------------------------------

TokenAddr == Addr("0xToken")
ReceiverAddr == Addr("0xReceiver")

\* Tokens that may stand anywhere in the raw argument string
PrefixTokens == {TokenAddr, ReceiverAddr, Word("abc")}

\* Tokens that may stand last
Tokens ==
    PrefixTokens \cup
    { Word("nan"), Word("inf"),
      Num(FALSE, <<5, 0, 0, 0>>, 0),                     \* "5000"
      Num(FALSE, <<0>>, 0),                              \* "0"
      Num(TRUE, <<1>>, 0),                               \* "-1"
      Num(FALSE, <<0, 0, 1>>, 2),                        \* "0.01"
      Num(FALSE, <<0, 0, 0, 0, 1>>, 4),                  \* "0.0001"
      Num(FALSE, <<1>> \o Zeros(17) \o <<1>>, 18),       \* "1.000000000000000001"
      Num(FALSE, <<1>> \o Zeros(17) \o <<1, 9>>, 19),    \* "1.0000000000000000019"
      Num(FALSE, <<1>> \o [i \in 1..28 |-> 9], 28) }     \* "1.9999999999999999999999999999"

\* The most tokens in a raw argument string
MaxTokens == 4

RECURSIVE TokenSeqs(_)
TokenSeqs(n) ==
    IF n = 0 THEN {<<>>}
    ELSE IF n = 1 THEN {<<t>> : t \in Tokens}
    ELSE {<<p>> \o ts : p \in PrefixTokens, ts \in TokenSeqs(n - 1)}

\* The tokens joined by single blanks, with or without blanks around
RECURSIVE Join(_)
Join(ts) ==
    IF Len(ts) = 0 THEN <<>>
    ELSE IF Len(ts) = 1 THEN ts
    ELSE <<ts[1], SP>> \o Join(Tail(ts))

RawStrings ==
    UNION {{Join(ts), <<SP>> \o Join(ts) \o <<SP>>} :
           ts \in UNION {TokenSeqs(n) : n \in 0..MaxTokens}}

TxHashes == {"0xh1", "0xh2"}
ReadResults == {0, 7}

\* ------------------------------------------------------------------------
\* State
\* ------------------------------------------------------------------------

VARIABLES
    pc,         \* where the invocation stands: "idle", "encode", "send",
                \* "wait", "read", "returned", "raised"
    tool,       \* the tool the agent runtime invoked
    raw,        \* the raw argument string it passed
    fn,         \* function_name
    args,       \* args
    value,      \* value (invoke_contract_function's Decimal)
    tx_params,  \* the transaction request
    tx_hash,    \* what send_transaction returned
    result,     \* what the tool callable returned
    exc,        \* the exception raised in this invocation: caught by the
                \* helper's except clause (pc = "returned") or let out of
                \* the tool callable (pc = "raised")
    calls       \* the encoder and wallet calls made by this invocation

vars == <<pc, tool, raw, fn, args, value, tx_params, tx_hash, result, exc, calls>>

None == [none |-> TRUE]
StrResult(parts) == [type |-> "str", parts |-> parts]
IntResult(v) == [type |-> "int", val |-> v]

Call(op, arg) == [op |-> op, arg |-> arg]

Init ==
    /\ pc = "idle"
    /\ tool = ""
    /\ raw = <<>>
    /\ fn = ""
    /\ args = <<>>
    /\ value = None
    /\ tx_params = None
    /\ tx_hash = ""
    /\ result = None
    /\ exc = ""
    /\ calls = <<>>

\* The agent runtime calls the tool's func with one string.
Enter(name, input_str) ==
    /\ tool' = name
    /\ raw' = input_str

\* return <string> before any call was made
ReturnEarly(r) ==
    /\ pc' = "returned"
    /\ result' = r
    /\ UNCHANGED <<fn, args, value, tx_params, tx_hash, exc, calls>>

\* an exception leaves the tool callable
Propagate(e) ==
    /\ pc' = "raised"
    /\ exc' = e
    /\ UNCHANGED <<fn, args, value, tx_params, tx_hash, result, calls>>

\* ------------------------------------------------------------------------
\* Helper methods
\* ------------------------------------------------------------------------

\* invoke_contract_function, up to its first call (encode_abi)
invoke_contract_function(function_name, arguments, val) ==
    /\ pc' = "encode"
    /\ fn' = function_name
    /\ args' = arguments
    /\ value' = val
    /\ UNCHANGED <<tx_params, tx_hash, result, exc, calls>>

\* read_contract_function, up to its call of read_contract
read_contract_function(function_name, arguments) ==
    /\ pc' = "read"
    /\ fn' = function_name
    /\ args' = arguments
    /\ UNCHANGED <<value, tx_params, tx_hash, result, exc, calls>>

\* except Exception as e: return f"Error calling {function_name}: {str(e)}"
ErrorCalling(e) ==
    /\ pc' = "returned"
    /\ exc' = e
    /\ result' = StrResult(<<"Error calling ", fn, ": ", e>>)

\* except Exception as e: return f"Error reading from contract: {str(e)}"
ErrorReading(e) ==
    /\ pc' = "returned"
    /\ exc' = e
    /\ result' = StrResult(<<"Error reading from contract: ", e>>)

\* The request without and with the ETH value in wei
BaseParams == [to |-> SMART_CONTRACT_ADDRESS, data |-> CallData(fn, args)]
ValueParams ==
    [to |-> SMART_CONTRACT_ADDRESS, data |-> CallData(fn, args),
     value |-> DecToInt(MulWei(value))]

\* data = contract.encode_abi(...), then tx_params is built; any exception
\* ends the invocation with the error string.
EncodeAbi ==
    /\ pc = "encode"
    /\ calls' = Append(calls, Call("encode_abi", CallData(fn, args)))
    /\ IF ~EncodeAbiOk(fn, args)
       THEN ErrorCalling("encoding error") /\ UNCHANGED tx_params
       ELSE IF GtZeroRaises(value)
       THEN ErrorCalling("InvalidOperation") /\ UNCHANGED tx_params
       ELSE IF GtZero(value) /\ DecToIntRaises(MulWei(value))
       THEN ErrorCalling("OverflowError") /\ UNCHANGED tx_params
       ELSE /\ pc' = "send"
            /\ tx_params' = IF GtZero(value) THEN ValueParams ELSE BaseParams
            /\ UNCHANGED <<result, exc>>
    /\ UNCHANGED <<tool, raw, fn, args, value, tx_hash>>

\* tx_hash = wallet_provider.send_transaction(tx_params) returns h
SendTransactionReturns(h) ==
    /\ pc = "send"
    /\ calls' = Append(calls, Call("send_transaction", tx_params))
    /\ tx_hash' = h
    /\ pc' = "wait"
    /\ UNCHANGED <<tool, raw, fn, args, value, tx_params, result, exc>>

\* A faulty variant of the failure of send_transaction: the call is made
\* again instead of ending the invocation.
SendTransactionRetried ==
    /\ pc = "send"
    /\ Len(calls) < 3
    /\ calls' = Append(calls, Call("send_transaction", tx_params))
    /\ UNCHANGED <<pc, tool, raw, fn, args, value, tx_params, tx_hash, result, exc>>

\* send_transaction raises
SendTransactionRaises ==
    /\ pc = "send"
    /\ calls' = Append(calls, Call("send_transaction", tx_params))
    /\ ErrorCalling("send failed")
    /\ UNCHANGED <<tool, raw, fn, args, value, tx_params, tx_hash>>

\* wallet_provider.wait_for_transaction_receipt(tx_hash) returns
WaitForReceiptReturns ==
    /\ pc = "wait"
    /\ calls' = Append(calls, Call("wait_for_transaction_receipt", tx_hash))
    /\ pc' = "returned"
    /\ result' = StrResult(<<"Successfully called ", fn, ". Transaction hash: ", tx_hash>>)
    /\ UNCHANGED <<tool, raw, fn, args, value, tx_params, tx_hash, exc>>

\* A faulty variant of the failure of wait_for_transaction_receipt: the
\* exception is swallowed and the success message returned.
WaitForReceiptSwallowed ==
    /\ pc = "wait"
    /\ calls' = Append(calls, Call("wait_for_transaction_receipt", tx_hash))
    /\ pc' = "returned"
    /\ exc' = "receipt failed"
    /\ result' = StrResult(<<"Successfully called ", fn, ". Transaction hash: ", tx_hash>>)
    /\ UNCHANGED <<tool, raw, fn, args, value, tx_params, tx_hash>>

\* wait_for_transaction_receipt raises
WaitForReceiptRaises ==
    /\ pc = "wait"
    /\ calls' = Append(calls, Call("wait_for_transaction_receipt", tx_hash))
    /\ ErrorCalling("receipt failed")
    /\ UNCHANGED <<tool, raw, fn, args, value, tx_params, tx_hash>>

ReadCall == Call("read_contract", [contract_address |-> SMART_CONTRACT_ADDRESS,
                                   function_name |-> fn, args |-> args])

\* result = wallet_provider.read_contract(...) returns v; return result
ReadContractReturns(v) ==
    /\ pc = "read"
    /\ calls' = Append(calls, ReadCall)
    /\ pc' = "returned"
    /\ result' = IntResult(v)
    /\ UNCHANGED <<tool, raw, fn, args, value, tx_params, tx_hash, exc>>

\* read_contract raises
ReadContractRaises ==
    /\ pc = "read"
    /\ calls' = Append(calls, ReadCall)
    /\ ErrorReading("read failed")
    /\ UNCHANGED <<tool, raw, fn, args, value, tx_params, tx_hash>>

\* ------------------------------------------------------------------------
\* Wrappers for contract operations
\* ------------------------------------------------------------------------

DecimalZero == Dec(0, <<0>>, 0)

\* value=Decimal(str(value_in_eth))
deposit_to_contract(value_in_eth) ==
    invoke_contract_function("deposit", <<>>, DecimalOfStrOfFloat(value_in_eth))

deposit_erc20_to_contract(token_address, amount) ==
    invoke_contract_function("depositERC20",
                             <<StrArg(token_address), IntArg(amount)>>, DecimalZero)

\* A faulty variant of increment_counter: one ETH is sent along.
increment_counter_paying ==
    invoke_contract_function("incrementCounter", <<>>, Dec(0, <<1>>, 0))

increment_counter == invoke_contract_function("incrementCounter", <<>>, DecimalZero)

get_contract_balance == read_contract_function("getBalance", <<>>)

get_contract_counter == read_contract_function("getCounter", <<>>)

get_contract_erc20_balance(token_address) ==
    read_contract_function("getERC20Balance", <<StrArg(token_address)>>)

withdraw_from_contract(to_address, amount_in_wei) ==
    invoke_contract_function("withdraw",
                             <<StrArg(to_address), IntArg(amount_in_wei)>>, DecimalZero)

\* A faulty variant of withdraw_erc20_from_contract: the two addresses
\* are passed in the other order.
withdraw_erc20_swapped(token_address, to_address, amount) ==
    invoke_contract_function("withdrawERC20",
        <<StrArg(to_address), StrArg(token_address), IntArg(amount)>>, DecimalZero)

withdraw_erc20_from_contract(token_address, to_address, amount) ==
    invoke_contract_function("withdrawERC20",
        <<StrArg(token_address), StrArg(to_address), IntArg(amount)>>, DecimalZero)

\* ------------------------------------------------------------------------
\* Small parser helpers for tools
\* ------------------------------------------------------------------------

parse_deposit_erc20_args(input_str) ==
    LET parts == Split(Strip(input_str))
    IN  IF Len(parts) # 2
        THEN ReturnEarly(StrResult(
                 <<"Error: Provide 'TOKEN_ADDRESS AMOUNT' separated by a space.">>))
        ELSE IF ~IntParses(parts[2])
        THEN ReturnEarly(StrResult(<<"Error: AMOUNT must be an integer.">>))
        ELSE deposit_erc20_to_contract(parts[1], PyInt(parts[2]))

parse_erc20_balance_args(input_str) ==
    LET token_addr == Strip(input_str)
    IN  IF token_addr = <<>>
        THEN ReturnEarly(StrResult(<<"Error: Provide a valid token address.">>))
        ELSE get_contract_erc20_balance(token_addr)

parse_withdraw_args(input_str) ==
    LET parts == Split(Strip(input_str))
    IN  IF Len(parts) # 2
        THEN ReturnEarly(StrResult(
                 <<"Error: Provide 'TO_ADDRESS AMOUNT_IN_ETH'. Example: '0xReceiver 0.01'">>))
        ELSE IF \/ ~DecimalParses(parts[2])
                \/ DecToIntRaises(MulWei(PyDecimal(parts[2])))
        THEN ReturnEarly(StrResult(
                 <<"Error: Amount must be a valid decimal, e.g. 0.01">>))
        ELSE withdraw_from_contract(parts[1], DecToInt(MulWei(PyDecimal(parts[2]))))

parse_withdraw_erc20_args(input_str) ==
    LET parts == Split(Strip(input_str))
    IN  IF Len(parts) # 3
        THEN ReturnEarly(StrResult(
                 <<"Error: Provide 'TOKEN_ADDRESS TO_ADDRESS AMOUNT'. Example: '0xSomeToken 0xReceiver 100000'">>))
        ELSE IF ~IntParses(parts[3])
        THEN ReturnEarly(StrResult(<<"Error: AMOUNT must be an integer.">>))
        ELSE withdraw_erc20_from_contract(parts[1], parts[2], PyInt(parts[3]))

\* ------------------------------------------------------------------------
\* custom_contract_tools: the func of each Tool, called with one string
\* ------------------------------------------------------------------------

\* lambda amount_str: deposit_to_contract(wallet_provider, float(amount_str))
DepositEth ==
    /\ pc = "idle"
    /\ \E amount_str \in RawStrings :
          /\ Enter("deposit_eth", amount_str)
          /\ IF ~FloatParses(amount_str) THEN Propagate("ValueError")
             ELSE deposit_to_contract(PyFloat(amount_str))

DepositErc20 ==
    /\ pc = "idle"
    /\ \E input_str \in RawStrings :
          Enter("deposit_erc20", input_str) /\ parse_deposit_erc20_args(input_str)

\* lambda _: increment_counter(wallet_provider)
IncrementCounter ==
    /\ pc = "idle"
    /\ \E input_str \in RawStrings :
          Enter("increment_counter", input_str) /\ increment_counter

\* lambda _: get_contract_balance(wallet_provider)
GetContractBalance ==
    /\ pc = "idle"
    /\ \E input_str \in RawStrings :
          Enter("get_contract_balance", input_str) /\ get_contract_balance

\* lambda _: get_contract_counter(wallet_provider)
GetContractCounter ==
    /\ pc = "idle"
    /\ \E input_str \in RawStrings :
          Enter("get_contract_counter", input_str) /\ get_contract_counter

GetContractErc20Balance ==
    /\ pc = "idle"
    /\ \E input_str \in RawStrings :
          Enter("get_contract_erc20_balance", input_str) /\ parse_erc20_balance_args(input_str)

Withdraw ==
    /\ pc = "idle"
    /\ \E input_str \in RawStrings :
          Enter("withdraw", input_str) /\ parse_withdraw_args(input_str)

WithdrawErc20 ==
    /\ pc = "idle"
    /\ \E input_str \in RawStrings :
          Enter("withdraw_erc20", input_str) /\ parse_withdraw_erc20_args(input_str)

\* The agent runtime takes the outcome; the next tool call starts afresh.
NextTurn ==
    /\ pc \in {"returned", "raised"}
    /\ pc' = "idle"
    /\ tool' = ""
    /\ raw' = <<>>
    /\ fn' = ""
    /\ args' = <<>>
    /\ value' = None
    /\ tx_params' = None
    /\ tx_hash' = ""
    /\ result' = None
    /\ exc' = ""
    /\ calls' = <<>>

Next ==
    \/ DepositEth
    \/ DepositErc20
    \/ IncrementCounter
    \/ GetContractBalance
    \/ GetContractCounter
    \/ GetContractErc20Balance
    \/ Withdraw
    \/ WithdrawErc20
    \/ EncodeAbi
    \/ \E h \in TxHashes : SendTransactionReturns(h)
    \/ SendTransactionRaises
    \/ WaitForReceiptReturns
    \/ WaitForReceiptRaises
    \/ \E v \in ReadResults : ReadContractReturns(v)
    \/ ReadContractRaises
    \/ NextTurn

Spec == Init /\ [][Next]_vars

\* ------------------------------------------------------------------------
\* Properties
\* ------------------------------------------------------------------------

MutatingTools ==
    {"deposit_eth", "deposit_erc20", "increment_counter", "withdraw", "withdraw_erc20"}
ViewTools ==
    {"get_contract_balance", "get_contract_counter", "get_contract_erc20_balance"}

\* The catalogue: the contract function and the number of tokens of each tool
FunctionOf ==
    [deposit_eth |-> "deposit", deposit_erc20 |-> "depositERC20",
     increment_counter |-> "incrementCounter",
     get_contract_balance |-> "getBalance", get_contract_counter |-> "getCounter",
     get_contract_erc20_balance |-> "getERC20Balance",
     withdraw |-> "withdraw", withdraw_erc20 |-> "withdrawERC20"]
Arity ==
    [deposit_eth |-> 1, deposit_erc20 |-> 2, increment_counter |-> 0,
     get_contract_balance |-> 0, get_contract_counter |-> 0,
     get_contract_erc20_balance |-> 1, withdraw |-> 2, withdraw_erc20 |-> 3]

\* The whitespace-delimited tokens of the raw argument string
TokensOf(s) == Split(Strip(s))

IsSuccess(r) == r.type = "str" /\ r.parts[1] = "Successfully called "
IsArgCountError(r) ==
    /\ r.type = "str"
    /\ r.parts[1] \in
         {"Error: Provide 'TOKEN_ADDRESS AMOUNT' separated by a space.",
          "Error: Provide a valid token address.",
          "Error: Provide 'TO_ADDRESS AMOUNT_IN_ETH'. Example: '0xReceiver 0.01'",
          "Error: Provide 'TOKEN_ADDRESS TO_ADDRESS AMOUNT'. Example: '0xSomeToken 0xReceiver 100000'"}
NotAnInteger == StrResult(<<"Error: AMOUNT must be an integer.">>)
NotADecimal == StrResult(<<"Error: Amount must be a valid decimal, e.g. 0.01">>)

\* The requests that were passed to send_transaction
SentRequests ==
    {calls[i].arg : i \in {j \in DOMAIN calls : calls[j].op = "send_transaction"}}

\* C1: no tool invocation, whatever the argument string and whatever the
\* wallet does, lets an exception out of the tool callable.
C1_NoExceptionPropagates == pc # "raised"

\* C2: an invocation whose argument string has not exactly as many tokens
\* as the tool's arity returns an argument-count error, and no encoder or
\* wallet call is made.
C2_ArityMismatchRejected ==
    (pc # "idle" /\ Len(TokensOf(raw)) # Arity[tool])
        => (pc = "returned" /\ IsArgCountError(result) /\ calls = <<>>)

\* C3: with the right number of tokens, an amount that does not parse ends
\* the invocation with the not-an-integer response (deposit_erc20,
\* withdraw_erc20) or the not-a-decimal response (withdraw, deposit_eth)
\* and no call is made.
C3_UnparseableAmountRejected ==
    (pc # "idle" /\ Len(TokensOf(raw)) = Arity[tool])
        => LET amount == TokensOf(raw)[Arity[tool]]
           IN  /\ (tool \in {"deposit_erc20", "withdraw_erc20"} /\ ~IntParses(amount))
                     => (pc = "returned" /\ result = NotAnInteger /\ calls = <<>>)
               /\ (tool \in {"withdraw", "deposit_eth"} /\ ~DecimalParses(amount))
                     => (pc = "returned" /\ result = NotADecimal /\ calls = <<>>)

MutatingOrder == <<"encode_abi", "send_transaction", "wait_for_transaction_receipt">>

\* C4: a mutating invocation makes its calls in one pass and in order:
\* encode_abi, then send_transaction at most once, then
\* wait_for_transaction_receipt at most once with the handle that
\* send_transaction returned; the success response carries that handle and
\* exists only once all three were made without an exception, and an
\* invocation that met no exception ends having made each call once.
C4_OnePassInOrder ==
    tool \in MutatingTools =>
        /\ Len(calls) <= Len(MutatingOrder)
        /\ \A i \in DOMAIN calls : calls[i].op = MutatingOrder[i]
        /\ pc = "send" => Len(calls) = 1
        /\ pc = "wait" => Len(calls) = 2
        /\ Len(calls) = 3 => (tx_hash \in TxHashes /\ calls[3].arg = tx_hash)
        /\ (pc = "returned" /\ IsSuccess(result))
              => (Len(calls) = 3 /\ exc = "" /\ result.parts[4] = calls[3].arg)
        /\ (pc = "returned" /\ exc = "" /\ calls # <<>>) => Len(calls) = 3

C4_Witness ==
    /\ tool \in MutatingTools
    /\ pc = "returned"
    /\ IsSuccess(result)
    /\ Len(calls) = 3
    /\ calls[3].arg = "0xh2"

\* C5: when encode_abi, the value conversion, send_transaction or
\* wait_for_transaction_receipt raised in a mutating invocation, the
\* response is the text "Error calling <functionName>..." and not a success
\* message; when read_contract raised in a read invocation the response is
\* the text "Error reading from contract...".
C5_ErrorResponses ==
    (pc = "returned" /\ exc # "") =>
        /\ result.type = "str"
        /\ ~IsSuccess(result)
        /\ tool \in MutatingTools
              => (result.parts[1] = "Error calling " /\ result.parts[2] = FunctionOf[tool])
        /\ tool \in ViewTools => result.parts[1] = "Error reading from contract: "

\* send_transaction succeeded and only wait_for_transaction_receipt failed
C5_Witness ==
    /\ pc = "returned"
    /\ tool = "deposit_eth"
    /\ Len(calls) = 3
    /\ exc = "receipt failed"

\* C6: a request passed to send_transaction has a value field only for the
\* payable function deposit, reached through deposit_eth with a nonzero
\* value; the requests for the other functions have exactly to and data.
C6_ValueOnlyForPayable ==
    \A p \in SentRequests :
        /\ p.to = SMART_CONTRACT_ADDRESS
        /\ "value" \in DOMAIN p
              => /\ SMART_CONTRACT_ABI[p.data.fn].stateMutability = "payable"
                 /\ p.data.fn = "deposit"
                 /\ tool = "deposit_eth"
                 /\ ~IsZero(value.coef)
        /\ p.data.fn \in {"depositERC20", "incrementCounter", "withdraw", "withdrawERC20"}
              => DOMAIN p = {"to", "data"}

C6_Witness ==
    /\ \E p \in SentRequests : "value" \in DOMAIN p
    /\ tool = "deposit_eth"

\* floor(amount * 10^18) of the literal t, digit by digit
FloorWei(t) ==
    IF t.frac <= 18 THEN StripZeros(t.digits \o Zeros(18 - t.frac))
    ELSE IF Len(t.digits) <= t.frac - 18 THEN <<0>>
    ELSE StripZeros(SubSeq(t.digits, 1, Len(t.digits) - (t.frac - 18)))

\* C7: the wei amount of deposit_eth (the request's value) and of withdraw
\* (the amount argument) is floor(amount * 10^18) of the non-negative
\* decimal literal given.
C7_WeiIsFloor ==
    /\ (tool = "deposit_eth" /\ "value" \in DOMAIN tx_params /\ Strip(raw)[1].kind = "num")
          => tx_params.value = IntVal(FALSE, FloorWei(Strip(raw)[1]))
    /\ (tool = "withdraw" /\ fn = "withdraw"
          /\ TokensOf(raw)[2][1].kind = "num" /\ ~TokensOf(raw)[2][1].neg)
          => args[2] = IntArg(IntVal(FALSE, FloorWei(TokensOf(raw)[2][1])))

\* The arguments the tool's tokens give, in the ABI's order
ExpectedArgs ==
    LET parts == TokensOf(raw)
    IN  IF tool = "deposit_erc20"
        THEN <<StrArg(parts[1]), IntArg(PyInt(parts[2]))>>
        ELSE IF tool = "get_contract_erc20_balance" THEN <<StrArg(Strip(raw))>>
        ELSE IF tool = "withdraw"
        THEN <<StrArg(parts[1]), IntArg(DecToInt(MulWei(PyDecimal(parts[2]))))>>
        ELSE IF tool = "withdraw_erc20"
        THEN <<StrArg(parts[1]), StrArg(parts[2]), IntArg(PyInt(parts[3]))>>
        ELSE <<>>

\* C8: each tool calls the contract function of the catalogue with its
\* tokens in the ABI's argument order and count; a view tool only ever
\* calls read_contract, a mutating tool never does.
C8_BindingAndSplit ==
    /\ fn # "" =>
          /\ fn = FunctionOf[tool]
          /\ Len(args) = Len(SMART_CONTRACT_ABI[fn].inputs)
          /\ \A i \in DOMAIN args :
                args[i].t = (IF SMART_CONTRACT_ABI[fn].inputs[i] = "address"
                             THEN "str" ELSE "int")
          /\ args = ExpectedArgs
    /\ tool \in ViewTools =>
          \A i \in DOMAIN calls :
              /\ calls[i].op = "read_contract"
              /\ calls[i].arg.function_name = FunctionOf[tool]
              /\ calls[i].arg.args = args
    /\ tool \in MutatingTools =>
          \A i \in DOMAIN calls :
              /\ calls[i].op \in {"encode_abi", "send_transaction",
                                  "wait_for_transaction_receipt"}
              /\ calls[i].op = "encode_abi" => calls[i].arg = CallData(fn, args)
              /\ calls[i].op = "send_transaction" => calls[i].arg.data = CallData(fn, args)

C8_Witness ==
    /\ tool = "withdraw_erc20"
    /\ pc = "wait"
    /\ args = <<StrArg(<<TokenAddr>>), StrArg(<<ReceiverAddr>>),
                IntArg([neg |-> FALSE, digits |-> <<5, 0, 0, 0>>])>>

\* C9: what a view tool hands back is text, when read_contract succeeded
\* as when it failed.
C9_ReadResultIsText ==
    (tool \in ViewTools /\ pc = "returned") => result.type = "str"

\* The literal given to deposit_eth, and what it says about the amount
DepositAmount == Strip(raw)[1]
AmountIsFinite == DepositAmount.kind = "num"
AmountIsPositive ==
    DepositAmount.kind = "num" /\ ~DepositAmount.neg /\ ~IsZero(DepositAmount.digits)

\* What C10 promises of a deposit_eth invocation that has returned
DepositSubmitted ==
    /\ Len(calls) >= 2
    /\ calls[2].op = "send_transaction"
    /\ calls[2].arg.data = CallData("deposit", <<>>)
    /\ ("value" \in DOMAIN calls[2].arg) <=> AmountIsPositive
    /\ exc = "" => (IsSuccess(result) /\ Len(calls) = 3)

====
